---- MODULE Spec2Model ----
(***************************************************************************)
(* A model of solutions/forward.c: the UDP forwarder between two netmap    *)
(* ports.  The state is the two ports' receive and transmit rings, the     *)
(* buffer memory behind the slots, the counters tot and fwd, the stop flag *)
(* and the position of main_loop.  forward_pkts is modelled one pass of    *)
(* its outer loop at a time; the kernel side of the rings (packet arrival, *)
(* transmit completion) acts only inside poll().                           *)
(***************************************************************************)
EXTENDS Integers, Sequences, FiniteSets, TLC

(* ------------------------------ bounds --------------------------------- *)
\* slots per ring (ring->num_slots); a ring holds at most NumSlots - 1 packets
NumSlots == 3
\* highest ring index a port may have (rings 0..MaxRing)
MaxRing == 1
\* bytes of a netmap buffer
BufSize == 54
\* packets the kernel delivers in one run of the whole program
LoopArrivals == 3
\* transmit completions the kernel reports in one run
MaxTxDone == 1
\* failures of poll() in one run
MaxPollErrors == 1
\* calls of forward_pkts in one run of the engine on its own
MaxCalls == 3
\* packets the kernel delivers in one run of the engine fed frames of every
\* kind
FrameArrivals == 4
\* packets the kernel delivers in one run of the whole program checked for
\* what it does in the end
FairArrivals == 2

(* ------------------------ program constants ---------------------------- *)
ETHERTYPE_IP == 2048
IPPROTO_UDP == 17
\* offsets of the fields pkt_select reads: struct ether_header is 14 bytes,
\* struct ip is 20 bytes
OffEtherType == 12
OffIpVhl == 14
OffIpProto == 23
OffUdpDport == 36
\* the port given with -p in the runs that filter
FilterPort == 53
\* another port, for the frames the filter rejects
OtherPort == FilterPort + 27

Ports == {1, 2}
Peer(p) == 3 - p
RingIds == 0 .. MaxRing
SlotIds == 0 .. (NumSlots - 1)

VARIABLES
    rx,            \* rx[p][r]: receive ring r of port p
    tx,            \* tx[p][r]: transmit ring r of port p
    bufs,          \* bufs[<<m, i>>]: the bytes of buffer i of memory region m
    tot, fwd,      \* the counters
    stop,          \* the flag set by sigint_handler
    mem,           \* mem[p]: the memory region of port p (nmd->mem)
    zerocopy,      \* main_loop's zerocopy
    udp_port,      \* the filter port
    last_rx_ring,  \* last_rx_ring[p], first_rx_ring is 0
    last_tx_ring,  \* last_tx_ring[p], first_tx_ring is 0
    pc,            \* where main_loop is
    events,        \* events[p]: pfd[p-1].events of the wait being prepared
    fsrc, fdst,    \* the arguments of the forward_pkts run in progress
    si, di,        \* forward_pkts's ring indices
    hist           \* history of the run, read by the properties only

vars == <<rx, tx, bufs, tot, fwd, stop, mem, zerocopy, udp_port, last_rx_ring,
          last_tx_ring, pc, events, fsrc, fdst, si, di, hist>>

(* --------------------------- byte helpers ------------------------------ *)
\* the byte of a buffer at an offset (offsets start at 0)
At(buf, off) == buf[off + 1]

\* htons on a little-endian host: the two bytes of a 16 bit value swapped
htons(v) == ((v % 65536) % 256) * 256 + ((v % 65536) \div 256)

\* a 16 bit field read by the host from the bytes at off, off + 1
Load16(buf, off) == At(buf, off) + 256 * At(buf, off + 1)


(* ------------------------------ frames --------------------------------- *)
\* The kinds of frame the kernel delivers.  udp53/udp80: UDP over a 20 byte
\* IP header; tcp53: TCP to port 53; arp: not IP (its bytes at the offsets of
\* ip_p and uh_dport read like UDP to port 53); opt53/opt80: UDP over a 24
\* byte IP header (opt80's option bytes read 53 at the offset of uh_dport);
\* runt: link-layer header only.
FrameKinds == {"udp53", "udp80", "tcp53", "arp", "opt53", "opt80", "runt"}

KindLen(kind) ==
    CASE kind = "runt" -> 14
      [] kind \in {"udp53", "udp80", "arp"} -> 42
      [] kind \in {"opt53", "opt80"} -> 46
      [] kind = "tcp53" -> 54

\* 0x0806 is ARP, protocol 6 is TCP
KindEtherType(kind) == IF kind = "arp" THEN 2054 ELSE ETHERTYPE_IP
KindProto(kind) == IF kind = "tcp53" THEN 6 ELSE IPPROTO_UDP
\* length of the IP header in bytes
KindIpHl(kind) == IF kind \in {"opt53", "opt80"} THEN 24 ELSE 20
\* destination port of the transport header
KindDport(kind) == IF kind \in {"udp80", "opt80"} THEN OtherPort ELSE FilterPort
\* first two bytes of the last IP option word, when there is one
KindOption(kind) == IF kind = "opt80" THEN FilterPort ELSE 0

\* the byte at offset off of the frame of this kind that is the q-th packet
\* delivered to receive ring r of port p (network byte order on the wire)
FrameByte(kind, p, r, q, off) ==
    LET dport == 14 + KindIpHl(kind) + 2 IN
    CASE off = 0 -> p
      [] off = 1 -> r
      [] off = 2 -> q
      [] off = OffEtherType -> KindEtherType(kind) \div 256
      [] off = OffEtherType + 1 -> KindEtherType(kind) % 256
      [] off = OffIpVhl -> 64 + (KindIpHl(kind) \div 4)
      [] off = OffIpProto -> KindProto(kind)
      [] off = dport -> KindDport(kind) \div 256
      [] off = dport + 1 -> KindDport(kind) % 256
      [] off \in {36, 37} /\ KindIpHl(kind) = 24 ->
            IF off = 36 THEN KindOption(kind) \div 256 ELSE KindOption(kind) % 256
      [] OTHER -> 0

Frame(kind, p, r, q) ==
    [i \in 1 .. KindLen(kind) |-> FrameByte(kind, p, r, q, i - 1)]

(* ---------------------------- pkt_select ------------------------------- *)
\* pkt_select that compares the headers whatever the filter port is
pkt_select_NoShortcut(buf, port) ==
    IF Load16(buf, OffEtherType) # htons(ETHERTYPE_IP) THEN 0
    ELSE IF At(buf, OffIpProto) # IPPROTO_UDP THEN 0
    ELSE IF Load16(buf, OffUdpDport) # htons(port) THEN 0
    ELSE 1

\* buf is the whole netmap buffer; the fields are read at the fixed offsets
\* of struct ether_header, struct ip and struct udphdr laid back to back
pkt_select(buf, port) ==
    IF port = 0 THEN 1
    ELSE IF Load16(buf, OffEtherType) # htons(ETHERTYPE_IP) THEN 0
    ELSE IF At(buf, OffIpProto) # IPPROTO_UDP THEN 0
    ELSE IF Load16(buf, OffUdpDport) # htons(port) THEN 0
    ELSE 1

\* the offsets of buf pkt_select reads on its way to its verdict: none
\* without a filter, else ether_type, then ip_p when that is IP, then
\* uh_dport when that is UDP
pkt_select_reads(buf, port) ==
    IF port = 0 THEN {}
    ELSE IF Load16(buf, OffEtherType) # htons(ETHERTYPE_IP)
         THEN {OffEtherType, OffEtherType + 1}
    ELSE IF At(buf, OffIpProto) # IPPROTO_UDP
         THEN {OffEtherType, OffEtherType + 1, OffIpProto}
    ELSE {OffEtherType, OffEtherType + 1, OffIpProto,
          OffUdpDport, OffUdpDport + 1}

(* ------------------------------ rings ---------------------------------- *)
\* slots between head and tail; forward_pkts keeps cur equal to head, so
\* counting from cur gives the same number
nm_ring_space(ring) ==
    LET ret == ring.tail - ring.head IN
    IF ret < 0 THEN ret + NumSlots ELSE ret

nm_ring_next(i) == IF i + 1 = NumSlots THEN 0 ELSE i + 1

\* the buffer a slot of a ring of port p points to
NETMAP_BUF(w, p, idx) == w.bufs[<<mem[p], idx>>]

rx_ready(p) ==
    IF \E ri \in 0 .. last_rx_ring[p] : nm_ring_space(rx[p][ri]) # 0
    THEN 1 ELSE 0

\* the rings, buffers and counters forward_pkts works on
World == [rx |-> rx, tx |-> tx, bufs |-> bufs, tot |-> tot, fwd |-> fwd]


(* ---------------------------- forward_pkts ----------------------------- *)
\* A call is c = [src, dst, udp_port, zerocopy], a position in it is the ring
\* indices si, di, and the state of the inner loop is
\* l = [w, nrx, ntx, rxhead, txhead].

\* memcpy(txbuf, rxbuf, n): the first n bytes of rxbuf over those of txbuf
memcpy(txbuf, rxbuf, n) ==
    [i \in 1 .. BufSize |-> IF i <= n THEN rxbuf[i] ELSE txbuf[i]]

\* ForwardOne with memcpy's arguments exchanged
ForwardOne_CopyReversed(c, s, d, l) ==
    LET w   == l.w
        rs  == w.rx[c.src][s].slot[l.rxhead]
        ts  == w.tx[c.dst][d].slot[l.txhead]
        rxk == <<mem[c.src], rs.buf_idx>>
        txk == <<mem[c.dst], ts.buf_idx>>
        w1  == IF c.zerocopy
               THEN [w EXCEPT
                       !.tx[c.dst][d].slot[l.txhead] =
                           [buf_idx |-> rs.buf_idx, len |-> rs.len,
                            flags |-> ts.flags \cup {"NS_BUF_CHANGED"}],
                       !.rx[c.src][s].slot[l.rxhead] =
                           [buf_idx |-> ts.buf_idx, len |-> rs.len,
                            flags |-> rs.flags \cup {"NS_BUF_CHANGED"}]]
               ELSE [w EXCEPT
                       !.tx[c.dst][d].slot[l.txhead].len = rs.len,
                       !.bufs[rxk] = memcpy(w.bufs[rxk], w.bufs[txk], rs.len)]
    IN [l EXCEPT !.w = [w1 EXCEPT !.fwd = @ + 1],
                 !.txhead = nm_ring_next(l.txhead),
                 !.ntx = @ - 1]

\* ForwardOne that does not flag the receive slot after the swap
ForwardOne_NoRxFlag(c, s, d, l) ==
    LET w   == l.w
        rs  == w.rx[c.src][s].slot[l.rxhead]
        ts  == w.tx[c.dst][d].slot[l.txhead]
        rxk == <<mem[c.src], rs.buf_idx>>
        txk == <<mem[c.dst], ts.buf_idx>>
        w1  == IF c.zerocopy
               THEN [w EXCEPT
                       !.tx[c.dst][d].slot[l.txhead] =
                           [buf_idx |-> rs.buf_idx, len |-> rs.len,
                            flags |-> ts.flags \cup {"NS_BUF_CHANGED"}],
                       !.rx[c.src][s].slot[l.rxhead] =
                           [buf_idx |-> ts.buf_idx, len |-> rs.len,
                            flags |-> rs.flags]]
               ELSE [w EXCEPT
                       !.tx[c.dst][d].slot[l.txhead].len = rs.len,
                       !.bufs[txk] = memcpy(w.bufs[txk], w.bufs[rxk], rs.len)]
    IN [l EXCEPT !.w = [w1 EXCEPT !.fwd = @ + 1],
                 !.txhead = nm_ring_next(l.txhead),
                 !.ntx = @ - 1]

\* ForwardOne that swaps the handles whatever zerocopy says
ForwardOne_AlwaysSwap(c, s, d, l) ==
    LET w   == l.w
        rs  == w.rx[c.src][s].slot[l.rxhead]
        ts  == w.tx[c.dst][d].slot[l.txhead]
        w1  == [w EXCEPT
                  !.tx[c.dst][d].slot[l.txhead] =
                      [buf_idx |-> rs.buf_idx, len |-> rs.len,
                       flags |-> ts.flags \cup {"NS_BUF_CHANGED"}],
                  !.rx[c.src][s].slot[l.rxhead] =
                      [buf_idx |-> ts.buf_idx, len |-> rs.len,
                       flags |-> rs.flags \cup {"NS_BUF_CHANGED"}]]
    IN [l EXCEPT !.w = [w1 EXCEPT !.fwd = @ + 1],
                 !.txhead = nm_ring_next(l.txhead),
                 !.ntx = @ - 1]

\* ForwardOne that gives the transmit slot the receive slot's buffer and
\* leaves the receive slot its own
ForwardOne_HalfSwap(c, s, d, l) ==
    LET w   == l.w
        rs  == w.rx[c.src][s].slot[l.rxhead]
        ts  == w.tx[c.dst][d].slot[l.txhead]
        rxk == <<mem[c.src], rs.buf_idx>>
        txk == <<mem[c.dst], ts.buf_idx>>
        w1  == IF c.zerocopy
               THEN [w EXCEPT
                       !.tx[c.dst][d].slot[l.txhead] =
                           [buf_idx |-> rs.buf_idx, len |-> rs.len,
                            flags |-> ts.flags \cup {"NS_BUF_CHANGED"}],
                       !.rx[c.src][s].slot[l.rxhead] =
                           [buf_idx |-> rs.buf_idx, len |-> rs.len,
                            flags |-> rs.flags \cup {"NS_BUF_CHANGED"}]]
               ELSE [w EXCEPT
                       !.tx[c.dst][d].slot[l.txhead].len = rs.len,
                       !.bufs[txk] = memcpy(w.bufs[txk], w.bufs[rxk], rs.len)]
    IN [l EXCEPT !.w = [w1 EXCEPT !.fwd = @ + 1],
                 !.txhead = nm_ring_next(l.txhead),
                 !.ntx = @ - 1]

\* ForwardOne that does not move txhead on
ForwardOne_TxHeadStays(c, s, d, l) ==
    LET w   == l.w
        rs  == w.rx[c.src][s].slot[l.rxhead]
        ts  == w.tx[c.dst][d].slot[l.txhead]
        rxk == <<mem[c.src], rs.buf_idx>>
        txk == <<mem[c.dst], ts.buf_idx>>
        w1  == IF c.zerocopy
               THEN [w EXCEPT
                       !.tx[c.dst][d].slot[l.txhead] =
                           [buf_idx |-> rs.buf_idx, len |-> rs.len,
                            flags |-> ts.flags \cup {"NS_BUF_CHANGED"}],
                       !.rx[c.src][s].slot[l.rxhead] =
                           [buf_idx |-> ts.buf_idx, len |-> rs.len,
                            flags |-> rs.flags \cup {"NS_BUF_CHANGED"}]]
               ELSE [w EXCEPT
                       !.tx[c.dst][d].slot[l.txhead].len = rs.len,
                       !.bufs[txk] = memcpy(w.bufs[txk], w.bufs[rxk], rs.len)]
    IN [l EXCEPT !.w = [w1 EXCEPT !.fwd = @ + 1],
                 !.ntx = @ - 1]

\* lines 122-136: the accepted packet goes to the transmit slot
ForwardOne(c, s, d, l) ==
    LET w   == l.w
        rs  == w.rx[c.src][s].slot[l.rxhead]
        ts  == w.tx[c.dst][d].slot[l.txhead]
        rxk == <<mem[c.src], rs.buf_idx>>
        txk == <<mem[c.dst], ts.buf_idx>>
        w1  == IF c.zerocopy
               THEN [w EXCEPT
                       !.tx[c.dst][d].slot[l.txhead] =
                           [buf_idx |-> rs.buf_idx, len |-> rs.len,
                            flags |-> ts.flags \cup {"NS_BUF_CHANGED"}],
                       !.rx[c.src][s].slot[l.rxhead] =
                           [buf_idx |-> ts.buf_idx, len |-> rs.len,
                            flags |-> rs.flags \cup {"NS_BUF_CHANGED"}]]
               ELSE [w EXCEPT
                       !.tx[c.dst][d].slot[l.txhead].len = rs.len,
                       !.bufs[txk] = memcpy(w.bufs[txk], w.bufs[rxk], rs.len)]
    IN [l EXCEPT !.w = [w1 EXCEPT !.fwd = @ + 1],
                 !.txhead = nm_ring_next(l.txhead),
                 !.ntx = @ - 1]

\* ForStep that counts in tot only the packets it forwards
ForStep_TotOnAccept(c, s, d, l) ==
    LET rs    == l.w.rx[c.src][s].slot[l.rxhead]
        rxbuf == NETMAP_BUF(l.w, c.src, rs.buf_idx)
        l1    == IF pkt_select(rxbuf, c.udp_port) = 0
                 THEN l
                 ELSE [ForwardOne(c, s, d, l) EXCEPT !.w.tot = @ + 1]
    IN [l1 EXCEPT !.nrx = @ - 1,
                  !.rxhead = nm_ring_next(l.rxhead)]

\* lines 112-137: one iteration of the for loop, its increments included
ForStep(c, s, d, l) ==
    LET rs    == l.w.rx[c.src][s].slot[l.rxhead]
        rxbuf == NETMAP_BUF(l.w, c.src, rs.buf_idx)
        l1    == IF pkt_select(rxbuf, c.udp_port) = 0
                 THEN l
                 ELSE ForwardOne(c, s, d, l)
    IN [l1 EXCEPT !.nrx = @ - 1,
                  !.rxhead = nm_ring_next(l.rxhead),
                  !.w.tot = @ + 1]

\* ForLoop that goes on while packets are queued, whatever room is left
RECURSIVE ForLoop_NoTxCheck(_, _, _, _)
ForLoop_NoTxCheck(c, s, d, l) ==
    IF l.nrx > 0
    THEN ForLoop_NoTxCheck(c, s, d, ForStep(c, s, d, l))
    ELSE l

RECURSIVE ForLoop(_, _, _, _)
ForLoop(c, s, d, l) ==
    IF l.nrx > 0 /\ l.ntx > 0
    THEN ForLoop(c, s, d, ForStep(c, s, d, l))
    ELSE l

\* lines 112-116: the slots the for loop points rs and ts at, iteration by
\* iteration
RECURSIVE ForVisits(_, _, _, _)
ForVisits(c, s, d, l) ==
    IF l.nrx > 0 /\ l.ntx > 0
    THEN LET rest == ForVisits(c, s, d, ForStep(c, s, d, l))
         IN [rx |-> {l.rxhead} \cup rest.rx, tx |-> {l.txhead} \cup rest.tx]
    ELSE [rx |-> {}, tx |-> {}]

\* Commit that sets cur and leaves head on the receive ring
Commit_CurOnly(s, d, c, l) ==
    [l.w EXCEPT !.rx[c.src][s].cur  = l.rxhead,
                !.tx[c.dst][d].head = l.txhead,
                !.tx[c.dst][d].cur  = l.txhead]

\* Commit that sets the transmit head one slot beyond the last one written
Commit_TxOneMore(s, d, c, l) ==
    [l.w EXCEPT !.rx[c.src][s].head = l.rxhead,
                !.rx[c.src][s].cur  = l.rxhead,
                !.tx[c.dst][d].head = nm_ring_next(l.txhead),
                !.tx[c.dst][d].cur  = nm_ring_next(l.txhead)]

\* lines 139-140
Commit(s, d, c, l) ==
    [l.w EXCEPT !.rx[c.src][s].head = l.rxhead,
                !.rx[c.src][s].cur  = l.rxhead,
                !.tx[c.dst][d].head = l.txhead,
                !.tx[c.dst][d].cur  = l.txhead]

\* Pass that moves to the next receive ring once it has worked on one
Pass_OncePerRing(w, c, s, d) ==
    LET rxring == w.rx[c.src][s]
        txring == w.tx[c.dst][d]
        nrx    == nm_ring_space(rxring)
        ntx    == nm_ring_space(txring)
    IN IF nrx = 0 THEN [w |-> w, si |-> s + 1, di |-> d]
       ELSE IF ntx = 0 THEN [w |-> w, si |-> s, di |-> d + 1]
       ELSE LET l == ForLoop(c, s, d,
                        [w |-> w, nrx |-> nrx, ntx |-> ntx,
                         rxhead |-> rxring.head, txhead |-> txring.head])
            IN [w |-> Commit(s, d, c, l), si |-> s + 1, di |-> d]

\* Pass that stays on a transmit ring that is full
Pass_StaysOnFull(w, c, s, d) ==
    LET rxring == w.rx[c.src][s]
        txring == w.tx[c.dst][d]
        nrx    == nm_ring_space(rxring)
        ntx    == nm_ring_space(txring)
    IN IF nrx = 0 THEN [w |-> w, si |-> s + 1, di |-> d]
       ELSE IF ntx = 0 THEN [w |-> w, si |-> s, di |-> d]
       ELSE LET l == ForLoop(c, s, d,
                        [w |-> w, nrx |-> nrx, ntx |-> ntx,
                         rxhead |-> rxring.head, txhead |-> txring.head])
            IN [w |-> Commit(s, d, c, l), si |-> s, di |-> d]

\* Pass that leaves the receive ring too when the transmit ring is full
Pass_NextPair(w, c, s, d) ==
    LET rxring == w.rx[c.src][s]
        txring == w.tx[c.dst][d]
        nrx    == nm_ring_space(rxring)
        ntx    == nm_ring_space(txring)
    IN IF nrx = 0 THEN [w |-> w, si |-> s + 1, di |-> d]
       ELSE IF ntx = 0 THEN [w |-> w, si |-> s + 1, di |-> d + 1]
       ELSE LET l == ForLoop(c, s, d,
                        [w |-> w, nrx |-> nrx, ntx |-> ntx,
                         rxhead |-> rxring.head, txhead |-> txring.head])
            IN [w |-> Commit(s, d, c, l), si |-> s, di |-> d]

\* lines 97-140: one pass of the while loop from position (s, d) in world w;
\* the result is the new world and position
Pass(w, c, s, d) ==
    LET rxring == w.rx[c.src][s]
        txring == w.tx[c.dst][d]
        nrx    == nm_ring_space(rxring)
        ntx    == nm_ring_space(txring)
    IN IF nrx = 0 THEN [w |-> w, si |-> s + 1, di |-> d]
       ELSE IF ntx = 0 THEN [w |-> w, si |-> s, di |-> d + 1]
       ELSE LET l == ForLoop(c, s, d,
                        [w |-> w, nrx |-> nrx, ntx |-> ntx,
                         rxhead |-> rxring.head, txhead |-> txring.head])
            IN [w |-> Commit(s, d, c, l), si |-> s, di |-> d]

\* line 91
WhileCond(c, s, d) == s <= last_rx_ring[c.src] /\ d <= last_tx_ring[c.dst]

\* lines 88-141: a whole call, from its first pass to its return
RECURSIVE WhileLoop(_, _, _, _)
WhileLoop(w, c, s, d) ==
    IF WhileCond(c, s, d)
    THEN LET r == Pass(w, c, s, d) IN WhileLoop(r.w, c, r.si, r.di)
    ELSE w

forward_pkts(w, c) == WhileLoop(w, c, 0, 0)


(* ----------------------------- the kernel ------------------------------ *)
\* The kernel puts a received frame in the slot at the tail of receive ring
\* r of port p (whose buffers live in region m): it writes the frame over
\* the start of the slot's buffer, sets the slot's length, clears its flags
\* and moves the tail.
Deliver(w, m, p, r, frame) ==
    LET t   == w.rx[p][r].tail
        idx == w.rx[p][r].slot[t].buf_idx
        k   == <<m, idx>>
    IN [w EXCEPT
          !.rx[p][r].tail = nm_ring_next(t),
          !.rx[p][r].slot[t] =
              [buf_idx |-> idx, len |-> Len(frame), flags |-> {}],
          !.bufs[k] = memcpy(w.bufs[k], frame, Len(frame))]

\* The kernel reports the slot at the tail of transmit ring r of port p as
\* sent: the tail moves over it and its flags are cleared.
Complete(w, p, r) ==
    LET t == w.tx[p][r].tail
    IN [w EXCEPT !.tx[p][r].tail = nm_ring_next(t),
                 !.tx[p][r].slot[t].flags = {}]

(* ------------------------------- Init ---------------------------------- *)
\* buffers of one port: one per slot of each of its rings
PortBufs == 2 * (MaxRing + 1) * NumSlots

\* The buffer index the slot s of ring r (dir 0: receive, 1: transmit) of
\* port p holds after nm_open.  Indices 0 and 1 are reserved by netmap.  In
\* one shared region the two ports' indices are disjoint; two regions number
\* their buffers alike.
InitBufIdx(m, p, dir, r, s) ==
    2 + (IF m[1] = m[2] /\ p = 2 THEN PortBufs ELSE 0)
      + (dir * (MaxRing + 1) + r) * NumSlots + s

InitSlot(m, p, dir, r, s) ==
    [buf_idx |-> InitBufIdx(m, p, dir, r, s), len |-> 0, flags |-> {}]

\* a receive ring starts empty, a transmit ring with all the space a ring
\* has; h is where the ring's head stands
InitRing(m, p, dir, r, h) ==
    [head |-> h, cur |-> h,
     tail |-> IF dir = 0 THEN h ELSE (h + NumSlots - 1) % NumSlots,
     slot |-> [s \in SlotIds |-> InitSlot(m, p, dir, r, s)]]

BufKeys(m) ==
    { <<m[p], InitBufIdx(m, p, dir, r, s)>> :
        p \in Ports, dir \in {0, 1}, r \in RingIds, s \in SlotIds }

ZeroBuf == [i \in 1 .. BufSize |-> 0]

InitWorld(m, h) ==
    [rx   |-> [p \in Ports |-> [r \in RingIds |-> InitRing(m, p, 0, r, h)]],
     tx   |-> [p \in Ports |-> [r \in RingIds |-> InitRing(m, p, 1, r, h)]],
     bufs |-> [k \in BufKeys(m) |-> ZeroBuf],
     tot  |-> 0, fwd |-> 0]

\* the two ways nm_open leaves the ports: one memory region, or two
MemChoices == { [p \in Ports |-> 1], [p \in Ports |-> p] }

InitHist(w, delivered, arrivals, track) ==
    [track  |-> track,        \* whether pre and twin are kept
     pre    |-> IF track THEN w ELSE <<>>,
                              \* the world when the call in progress began
     twin   |-> IF track THEN w ELSE <<>>,
                              \* the calls since the kernel last touched a
                              \* ring, replayed in copy mode
     rxadv  |-> 0,            \* slots receive heads were moved by
     seq    |-> delivered,    \* seq[p][r]: packets delivered to the ring
     maxarr |-> arrivals,     \* packets the kernel may still deliver
     ntxdone |-> 0, nerr |-> 0,
     stderr |-> 0,            \* lines perror has printed
     quiet  |-> {},           \* source ports whose call has returned since
                              \* the kernel last touched a ring
     steps  |-> <<>>,         \* what this iteration of main_loop did so
                              \* far: its wait, then its calls
     ret    |-> 1,            \* what the last poll returned
     calls  |-> 0,            \* calls of forward_pkts begun
     closed |-> FALSE, report |-> <<>>]

InitVars(m, k, port, w, where, h) ==
    /\ mem = m
    /\ zerocopy = (m[1] = m[2])
    /\ udp_port = port
    /\ last_rx_ring = k
    /\ last_tx_ring = k
    /\ rx = w.rx
    /\ tx = w.tx
    /\ bufs = w.bufs
    /\ tot = 0
    /\ fwd = 0
    /\ stop = 0
    /\ pc = where
    /\ events = [p \in Ports |-> {}]
    /\ fsrc = 1
    /\ fdst = 2
    /\ si = 0
    /\ di = 0
    /\ hist = h

NoneDelivered == [p \in Ports |-> [r \in RingIds |-> 0]]

\* the state when main_loop has opened both ports and set zerocopy
Init ==
    \E m \in MemChoices, k \in [Ports -> RingIds], port \in {0, FilterPort} :
        InitVars(m, k, port, InitWorld(m, 0), "top",
                 InitHist(InitWorld(m, 0), NoneDelivered, LoopArrivals, FALSE))

(* The engine on its own: forward_pkts is called on rings in any state the  *)
(* kernel can leave them in.  One port's receive rings hold any queues of   *)
(* frames and its peer's transmit rings have any number of slots in flight; *)
(* in the other direction one frame is queued.                              *)
\* The frames the kernel delivers: without a filter one kind, every kind being
\* forwarded alike; with the filter a kind it accepts and a kind it rejects.
ArrivalKinds(port) == IF port = 0 THEN {"udp53"} ELSE {"udp53", "udp80"}

Queues(kinds) == UNION { [1 .. n -> kinds] : n \in 0 .. (NumSlots - 1) }

RECURSIVE DeliverAll(_, _, _, _, _, _)
DeliverAll(w, m, p, r, q, i) ==
    IF i > Len(q) THEN w
    ELSE DeliverAll(Deliver(w, m, p, r, Frame(q[i], p, r, i)), m, p, r, q, i + 1)

\* the transmit ring with only free of its slots free
InFlight(w, p, r, free) ==
    [w EXCEPT !.tx[p][r].tail = (w.tx[p][r].head + free) % NumSlots]

RECURSIVE FillRings(_, _, _, _, _, _, _)
FillRings(w, m, src, k, qs, fr, r) ==
    IF r > MaxRing THEN w
    ELSE LET w1 == IF r <= k[src]
                   THEN DeliverAll(w, m[src], src, r, qs[r], 1) ELSE w
             w2 == IF r <= k[Peer(src)]
                   THEN InFlight(w1, Peer(src), r, fr[r]) ELSE w1
         IN FillRings(w2, m, src, k, qs, fr, r + 1)


UnitWorld(m, k, src, qs, fr, h) ==
    Deliver(FillRings(InitWorld(m, h), m, src, k, qs, fr, 0),
            m[Peer(src)], Peer(src), 0, Frame("udp53", Peer(src), 0, 1))

UnitDelivered(k, src, qs) ==
    [p \in Ports |-> [r \in RingIds |->
        IF p = src THEN (IF r <= k[src] THEN Len(qs[r]) ELSE 0)
        ELSE (IF r = 0 THEN 1 ELSE 0)]]

InitUnit ==
    \E m \in MemChoices, k \in [Ports -> RingIds], port \in {0, FilterPort},
       src \in {1}, h \in {0, NumSlots - 1} :
      \E qs \in [0 .. k[src] -> Queues(ArrivalKinds(port))],
         fr \in [0 .. k[Peer(src)] -> 0 .. (NumSlots - 1)] :
        LET w == UnitWorld(m, k, src, qs, fr, h)
        IN InitVars(m, k, port, w, "unit",
                    InitHist(w, UnitDelivered(k, src, qs), 0, TRUE))

(* ------------------------------ actions -------------------------------- *)
SetWorld(w) ==
    /\ rx' = w.rx
    /\ tx' = w.tx
    /\ bufs' = w.bufs
    /\ tot' = w.tot
    /\ fwd' = w.fwd

\* the call of forward_pkts in progress
CallCtx ==
    [src |-> fsrc, dst |-> fdst, udp_port |-> udp_port, zerocopy |-> zerocopy]

\* sigint_handler
Sigint ==
    /\ pc # "done"
    /\ stop' = 1
    /\ UNCHANGED <<rx, tx, bufs, tot, fwd, mem, zerocopy, udp_port,
                   last_rx_ring, last_tx_ring, pc, events, fsrc, fdst, si, di,
                   hist>>

\* PollEvents that asks for POLLOUT on the port that has the packets
PollEvents_OwnPort(p) ==
    (IF rx_ready(p) = 0 THEN {"POLLIN"} ELSE {"POLLOUT"})

\* lines 186-207: what the next wait asks of port p
PollEvents(p) ==
    (IF rx_ready(p) = 0 THEN {"POLLIN"} ELSE {})
    \cup (IF rx_ready(Peer(p)) = 0 THEN {} ELSE {"POLLOUT"})

\* LoopTop that enters poll whatever stop is
LoopTop_IgnoresStop ==
    /\ pc = "top"
    /\ events' = [p \in Ports |-> PollEvents(p)]
    /\ pc' = "wait"
    /\ hist' = [hist EXCEPT !.steps = <<>>]
    /\ UNCHANGED <<rx, tx, bufs, tot, fwd, stop, mem, zerocopy, udp_port,
                   last_rx_ring, last_tx_ring, fsrc, fdst, si, di>>

\* line 181 with stop clear, lines 186-211: prepare pfd and enter poll
LoopTop ==
    /\ pc = "top"
    /\ stop = 0
    /\ events' = [p \in Ports |-> PollEvents(p)]
    /\ pc' = "wait"
    /\ hist' = [hist EXCEPT !.steps = <<>>]
    /\ UNCHANGED <<rx, tx, bufs, tot, fwd, stop, mem, zerocopy, udp_port,
                   last_rx_ring, last_tx_ring, fsrc, fdst, si, di>>

\* line 181 with stop set, lines 225-231: leave the loop, close, report
LoopExit ==
    /\ pc = "top"
    /\ stop # 0
    /\ pc' = "done"
    /\ hist' = [hist EXCEPT !.closed = TRUE, !.report = <<tot, fwd>>]
    /\ UNCHANGED <<rx, tx, bufs, tot, fwd, stop, mem, zerocopy, udp_port,
                   last_rx_ring, last_tx_ring, events, fsrc, fdst, si, di>>

\* the kernel touches the rings only inside poll, or between the calls of
\* the engine on its own
KernelMayAct == pc \in {"wait", "unit"}

\* a frame arrives
Arrive(p, r, kind) ==
    /\ KernelMayAct
    /\ r <= last_rx_ring[p]
    /\ nm_ring_space(rx[p][r]) < NumSlots - 1
    /\ hist.maxarr > 0
    /\ LET q  == hist.seq[p][r] + 1
           w1 == Deliver(World, mem[p], p, r, Frame(kind, p, r, q))
       IN /\ SetWorld(w1)
          /\ hist' = [hist EXCEPT !.seq[p][r] = q, !.maxarr = @ - 1,
                                  !.twin = IF hist.track THEN w1 ELSE @,
                                  !.quiet = {}]
    /\ UNCHANGED <<stop, mem, zerocopy, udp_port, last_rx_ring, last_tx_ring,
                   pc, events, fsrc, fdst, si, di>>

\* a transmission completes
TxDone(p, r) ==
    /\ KernelMayAct
    /\ r <= last_tx_ring[p]
    /\ nm_ring_space(tx[p][r]) < NumSlots - 1
    /\ hist.ntxdone < MaxTxDone
    /\ LET w1 == Complete(World, p, r)
       IN /\ SetWorld(w1)
          /\ hist' = [hist EXCEPT !.ntxdone = @ + 1,
                                  !.twin = IF hist.track THEN w1 ELSE @,
                                  !.quiet = {}]
    /\ UNCHANGED <<stop, mem, zerocopy, udp_port, last_rx_ring, last_tx_ring,
                   pc, events, fsrc, fdst, si, di>>

\* what poll finds ready on port p among what was asked
Revents(p) ==
    { e \in events[p] :
        \/ e = "POLLIN" /\ rx_ready(p) = 1
        \/ e = "POLLOUT" /\ \E r \in 0 .. last_tx_ring[p] :
                                nm_ring_space(tx[p][r]) # 0 }

\* poll's return value when it does not fail
PollRet == Cardinality({ p \in Ports : Revents(p) # {} })

\* how hist.steps records a wait; a call is recorded as <<src, dst>>
WaitStep == <<0, 0>>

\* lines 85-89: forward_pkts is entered
Enter(src, dst, h) ==
    /\ fsrc' = src
    /\ fdst' = dst
    /\ si' = 0
    /\ di' = 0
    /\ hist' = [h EXCEPT
                  !.steps = IF @ = <<>> THEN @ ELSE Append(@, <<src, dst>>),
                  !.pre = IF h.track THEN World ELSE @,
                  !.twin = IF h.track
                           THEN forward_pkts(@, [src |-> src, dst |-> dst,
                                                 udp_port |-> udp_port,
                                                 zerocopy |-> FALSE])
                           ELSE @]

\* PollError that prints the error, leaves the loop, closes and reports
PollError_Fatal ==
    /\ pc = "wait"
    /\ hist.nerr < MaxPollErrors
    /\ pc' = "done"
    /\ hist' = [hist EXCEPT !.nerr = @ + 1, !.ret = -1, !.stderr = @ + 1,
                            !.steps = <<WaitStep>>,
                            !.closed = TRUE, !.report = <<tot, fwd>>]
    /\ UNCHANGED <<rx, tx, bufs, tot, fwd, stop, mem, zerocopy, udp_port,
                   last_rx_ring, last_tx_ring, events, fsrc, fdst, si, di>>

\* lines 211-213, 220: poll fails, the error is printed, forwarding goes on
PollError ==
    /\ pc = "wait"
    /\ hist.nerr < MaxPollErrors
    /\ pc' = "fwd_a"
    /\ Enter(1, 2, [hist EXCEPT !.nerr = @ + 1, !.ret = -1, !.stderr = @ + 1,
                                !.steps = <<WaitStep>>])
    /\ UNCHANGED <<rx, tx, bufs, tot, fwd, stop, mem, zerocopy, udp_port,
                   last_rx_ring, last_tx_ring, events>>

\* lines 211, 214-216: poll times out, back to the top of the loop
PollTimeout ==
    /\ pc = "wait"
    /\ PollRet = 0
    /\ pc' = "top"
    /\ hist' = [hist EXCEPT !.ret = 0, !.steps = <<WaitStep>>]
    /\ UNCHANGED <<rx, tx, bufs, tot, fwd, stop, mem, zerocopy, udp_port,
                   last_rx_ring, last_tx_ring, events, fsrc, fdst, si, di>>

\* PollReady that calls forward_pkts with the ports exchanged
PollReady_Swapped ==
    /\ pc = "wait"
    /\ PollRet > 0
    /\ pc' = "fwd_a"
    /\ Enter(2, 1, [hist EXCEPT !.ret = PollRet, !.steps = <<WaitStep>>])
    /\ UNCHANGED <<rx, tx, bufs, tot, fwd, stop, mem, zerocopy, udp_port,
                   last_rx_ring, last_tx_ring, events>>

\* lines 211, 220: poll reports readiness
PollReady ==
    /\ pc = "wait"
    /\ PollRet > 0
    /\ pc' = "fwd_a"
    /\ Enter(1, 2, [hist EXCEPT !.ret = PollRet, !.steps = <<WaitStep>>])
    /\ UNCHANGED <<rx, tx, bufs, tot, fwd, stop, mem, zerocopy, udp_port,
                   last_rx_ring, last_tx_ring, events>>

\* slots by which the head of receive ring r of port p moved from w0 to w1
HeadMove(w0, w1, p, r) ==
    (w1.rx[p][r].head - w0.rx[p][r].head + NumSlots) % NumSlots

\* lines 91-140: one pass of forward_pkts's while loop
ForwardPass ==
    /\ pc \in {"fwd_a", "fwd_b", "fwd_u"}
    /\ WhileCond(CallCtx, si, di)
    /\ LET r == Pass(World, CallCtx, si, di)
       IN /\ SetWorld(r.w)
          /\ si' = r.si
          /\ di' = r.di
          /\ hist' = [hist EXCEPT
                        !.rxadv = @ + HeadMove(World, r.w, fsrc, si)]
    /\ UNCHANGED <<stop, mem, zerocopy, udp_port, last_rx_ring, last_tx_ring,
                   pc, events, fsrc, fdst>>

\* ReturnA that looks at stop and skips the second call when it is set
ReturnA_StopAware ==
    /\ pc = "fwd_a"
    /\ ~WhileCond(CallCtx, si, di)
    /\ IF stop # 0
       THEN /\ pc' = "top"
            /\ hist' = [hist EXCEPT !.quiet = @ \cup {1}]
            /\ UNCHANGED <<fsrc, fdst, si, di>>
       ELSE /\ pc' = "fwd_b"
            /\ Enter(2, 1, [hist EXCEPT !.quiet = @ \cup {1}])
    /\ UNCHANGED <<rx, tx, bufs, tot, fwd, stop, mem, zerocopy, udp_port,
                   last_rx_ring, last_tx_ring, events>>

\* lines 91, 141, 221: the first call returns and the second is entered
ReturnA ==
    /\ pc = "fwd_a"
    /\ ~WhileCond(CallCtx, si, di)
    /\ pc' = "fwd_b"
    /\ Enter(2, 1, [hist EXCEPT !.quiet = @ \cup {1}])
    /\ UNCHANGED <<rx, tx, bufs, tot, fwd, stop, mem, zerocopy, udp_port,
                   last_rx_ring, last_tx_ring, events>>

\* lines 91, 141, 223: the second call returns, the iteration is over
ReturnB ==
    /\ pc = "fwd_b"
    /\ ~WhileCond(CallCtx, si, di)
    /\ pc' = "top"
    /\ hist' = [hist EXCEPT !.quiet = @ \cup {2}]
    /\ UNCHANGED <<rx, tx, bufs, tot, fwd, stop, mem, zerocopy, udp_port,
                   last_rx_ring, last_tx_ring, events, fsrc, fdst, si, di>>

\* forward_pkts(src, dst, udp_port, zerocopy) called on its own
UnitCall(src) ==
    /\ pc = "unit"
    /\ hist.calls < MaxCalls
    /\ pc' = "fwd_u"
    /\ Enter(src, Peer(src), [hist EXCEPT !.calls = @ + 1])
    /\ UNCHANGED <<rx, tx, bufs, tot, fwd, stop, mem, zerocopy, udp_port,
                   last_rx_ring, last_tx_ring, events>>

\* lines 91, 141: that call returns
UnitReturn ==
    /\ pc = "fwd_u"
    /\ ~WhileCond(CallCtx, si, di)
    /\ pc' = "unit"
    /\ hist' = [hist EXCEPT !.quiet = @ \cup {fsrc}]
    /\ UNCHANGED <<rx, tx, bufs, tot, fwd, stop, mem, zerocopy, udp_port,
                   last_rx_ring, last_tx_ring, events, fsrc, fdst, si, di>>

Next ==
    \/ Sigint
    \/ LoopTop
    \/ LoopExit
    \/ \E p \in Ports, r \in RingIds, kind \in ArrivalKinds(udp_port) :
            Arrive(p, r, kind)
    \/ \E p \in Ports, r \in RingIds : TxDone(p, r)
    \/ PollError
    \/ PollTimeout
    \/ PollReady
    \/ ForwardPass
    \/ ReturnA
    \/ ReturnB

\* the whole program: main_loop, the signal and the kernel
Spec == Init /\ [][Next]_vars

\* a step of main_loop outside forward_pkts: the loop test, poll coming back
\* (it does within its timeout), the calls and returns of forward_pkts
MainStep ==
    \/ LoopTop
    \/ LoopExit
    \/ PollError
    \/ PollTimeout
    \/ PollReady
    \/ ReturnA
    \/ ReturnB

\* a pass of forward_pkts's while loop is due and changes the state
PassMoves ==
    /\ pc \in {"fwd_a", "fwd_b", "fwd_u"}
    /\ WhileCond(CallCtx, si, di)
    /\ Pass(World, CallCtx, si, di) # [w |-> World, si |-> si, di |-> di]

\* weak fairness of ForwardPass, with the condition under which it is enabled
\* written out: the running program takes the pass that is due
FairPass == []<>(~PassMoves) \/ []<><<ForwardPass>>_vars

\* The whole program, which does not stop while it has a step to take; the
\* signal and the kernel come when they will.
InitFair ==
    \E m \in MemChoices, k \in [Ports -> RingIds], port \in {0, FilterPort} :
        InitVars(m, k, port, InitWorld(m, 0), "top",
                 InitHist(InitWorld(m, 0), NoneDelivered, FairArrivals, FALSE))

SpecFair == InitFair /\ [][Next]_vars /\ WF_vars(MainStep) /\ FairPass

NextUnit ==
    \/ \E src \in Ports : UnitCall(src)
    \/ ForwardPass
    \/ UnitReturn

\* the engine on its own
SpecUnit == InitUnit /\ [][NextUnit]_vars

(* The engine fed frames of every kind: the kernel delivers frames to port  *)
(* one between the calls, forward_pkts moves them to port two.  The rings   *)
(* start as nm_open leaves them, so what a buffer holds beyond a frame's    *)
(* length is what earlier frames left there.                                *)
InitFrames ==
    \E m \in MemChoices, port \in {0, FilterPort} :
        InitVars(m, [p \in Ports |-> 0], port, InitWorld(m, 0), "unit",
                 InitHist(InitWorld(m, 0), NoneDelivered, FrameArrivals, TRUE))

NextFrames ==
    \/ \E kind \in FrameKinds : Arrive(1, 0, kind)
    \/ UnitCall(1)
    \/ ForwardPass
    \/ UnitReturn

SpecFrames == InitFrames /\ [][NextFrames]_vars

TypeOK ==
    /\ pc \in {"top", "wait", "fwd_a", "fwd_b", "done", "unit", "fwd_u"}
    /\ stop \in {0, 1}
    /\ tot \in Nat /\ fwd \in Nat

(* ------------------- what a call found when it began ------------------- *)
\* a call of forward_pkts has run its while loop to the end
AtReturn ==
    /\ pc \in {"fwd_a", "fwd_b", "fwd_u"}
    /\ ~(si <= last_rx_ring[fsrc] /\ di <= last_tx_ring[fdst])

\* the call works on one receive ring and one transmit ring
SingleRings == last_rx_ring[fsrc] = 0 /\ last_tx_ring[fdst] = 0

Occupancy(ring) == (ring.tail - ring.head + NumSlots) % NumSlots

\* packets queued in receive ring 0 of the source when the call began
PreQueued == Occupancy(hist.pre.rx[fsrc][0])
\* free slots of transmit ring 0 of the destination when the call began
PreFree == Occupancy(hist.pre.tx[fdst][0])
\* the j-th queued slot (from 0) of receive ring 0 when the call began
PreSlotAt(j) == (hist.pre.rx[fsrc][0].head + j) % NumSlots
PreSlot(j) == hist.pre.rx[fsrc][0].slot[PreSlotAt(j)]
\* the j-th free slot (from 0) of transmit ring 0 when the call began
PreTxAt(j) == (hist.pre.tx[fdst][0].head + j) % NumSlots
\* the classifier's verdict on the j-th queued packet
PreAccepts(j) ==
    pkt_select(hist.pre.bufs[<<mem[fsrc], PreSlot(j).buf_idx>>], udp_port) = 1
\* accepted packets among the first n queued
PreAcceptedIn(n) == Cardinality({ j \in 0 .. (n - 1) : PreAccepts(j) })
PreAccepted == PreAcceptedIn(PreQueued)
\* queued packets up to and including the n-th accepted one (0 for n = 0)
UpToAccepted(n) ==
    CHOOSE j \in 0 .. PreQueued :
        /\ PreAcceptedIn(j) = n
        /\ (j = 0 \/ PreAccepts(j - 1))

(* ----------------------------- C1 -------------------------------------- *)
\* C1 as stated: over one receive ring and one transmit ring with a free slot
\* for every accepted frame, a call examines every queued frame and forwards
\* exactly the accepted ones.
C1_AllExaminedAsStated ==
    (AtReturn /\ SingleRings /\ PreFree >= PreAccepted)
        => /\ tot - hist.pre.tot = PreQueued
           /\ fwd - hist.pre.fwd = PreAccepted

\* C1 amended: with a free slot for every accepted frame exactly the accepted
\* frames are forwarded; every queued frame is examined when a free slot is
\* left over (more free slots than accepted frames), and otherwise the frames
\* examined are those up to and including the last accepted one.
C1_AcceptedForwarded ==
    (AtReturn /\ SingleRings /\ PreFree >= PreAccepted)
        => /\ fwd - hist.pre.fwd = PreAccepted
           /\ tot - hist.pre.tot =
                 IF PreFree > PreAccepted THEN PreQueued
                 ELSE UpToAccepted(PreAccepted)

\* a call that met accepted and rejected frames, a rejected one first, and
\* had room for all the accepted ones
C1_Witness ==
    /\ AtReturn /\ SingleRings /\ PreFree > PreAccepted
    /\ PreQueued >= 2 /\ ~PreAccepts(0) /\ PreAccepts(1)
    /\ fwd - hist.pre.fwd = 1

(* ----------------------------- C2 -------------------------------------- *)
\* C2: one receive ring with R packets, one transmit ring with T < R free
\* slots, at least T packets accepted: exactly T are forwarded, the transmit
\* cursor moves by T, the receive cursor moves past the packets up to and
\* including the T-th accepted one, and the later packets stay queued.
C2_PartialCapacity ==
    (AtReturn /\ SingleRings /\ PreFree < PreQueued /\ PreAccepted >= PreFree)
        => LET rxr == rx[fsrc][0]
               txr == tx[fdst][0]
               adv == UpToAccepted(PreFree)
           IN /\ fwd - hist.pre.fwd = PreFree
              /\ txr.head = (hist.pre.tx[fdst][0].head + PreFree) % NumSlots
              /\ txr.cur = txr.head
              /\ rxr.head = (hist.pre.rx[fsrc][0].head + adv) % NumSlots
              /\ rxr.cur = rxr.head
              /\ rxr.tail = hist.pre.rx[fsrc][0].tail
              /\ Occupancy(rxr) = PreQueued - adv
              /\ \A j \in adv .. (PreQueued - 1) :
                    /\ rxr.slot[PreSlotAt(j)] = PreSlot(j)
                    /\ bufs[<<mem[fsrc], PreSlot(j).buf_idx>>]
                         = hist.pre.bufs[<<mem[fsrc], PreSlot(j).buf_idx>>]

\* a call with less room than packets, where a rejected packet came before
\* the accepted one that took the last free slot
C2_Witness ==
    /\ AtReturn /\ SingleRings /\ PreFree < PreQueued /\ PreFree >= 1
    /\ PreAccepted >= PreFree
    /\ ~PreAccepts(0)
    /\ fwd - hist.pre.fwd = PreFree

(* ----------------------------- C3 -------------------------------------- *)
\* what an observer of the rings sees of a world: the cursors of every ring,
\* the counters, and for every transmit slot its length and the bytes of
\* that length behind its buffer handle
Cursors(ring) == <<ring.head, ring.cur, ring.tail>>

Payload(w, p, slot) ==
    [i \in 1 .. slot.len |-> w.bufs[<<mem[p], slot.buf_idx>>][i]]

Observed(w) ==
    [rx  |-> [p \in Ports |-> [r \in RingIds |-> Cursors(w.rx[p][r])]],
     tx  |-> [p \in Ports |-> [r \in RingIds |-> Cursors(w.tx[p][r])]],
     tot |-> w.tot,
     fwd |-> w.fwd,
     out |-> [p \in Ports |-> [r \in RingIds |-> [s \in SlotIds |->
                <<w.tx[p][r].slot[s].len,
                  Payload(w, p, w.tx[p][r].slot[s])>>]]]]

\* C3: from the same ring contents and through the same calls, forward_pkts
\* with zerocopy and without gives the same cursors, the same tot and fwd and
\* the same length and payload in every transmit slot.
C3_ZerocopyAsCopy ==
    (AtReturn /\ zerocopy) => Observed(World) = Observed(hist.twin)

\* a zerocopy call has forwarded a packet, so that the handles of the two
\* runs differ while what they show is compared
C3_Witness ==
    /\ AtReturn /\ zerocopy
    /\ fwd > hist.pre.fwd
    /\ World.tx # hist.twin.tx

(* ----------------------------- C4 -------------------------------------- *)
\* C4: tot is the number of slots receive heads have been moved by, and fwd
\* never exceeds tot.
C4_Conservation == tot = hist.rxadv /\ fwd <= tot

\* calls in both directions have moved receive heads, and a packet was
\* dropped
C4_Witness ==
    /\ pc = "fwd_b" /\ AtReturn
    /\ rx[1][0].head # 0 /\ rx[2][0].head # 0
    /\ fwd < tot

(* ----------------------------- C5 -------------------------------------- *)
\* C5: a call of forward_pkts from a source whose earlier call has returned,
\* with no ring touched by the kernel since, changes no cursor, no slot, no
\* buffer and no counter.
C5_RepeatedCallNoEffect ==
    [][(pc \in {"fwd_a", "fwd_b", "fwd_u"} /\ fsrc \in hist.quiet)
          => UNCHANGED <<rx, tx, bufs, tot, fwd>>]_vars

\* a repeated call has run to its end while packets it cannot forward are
\* still queued
C5_Witness ==
    /\ AtReturn /\ fsrc \in hist.quiet
    /\ \E r \in 0 .. last_rx_ring[fsrc] : Occupancy(rx[fsrc][r]) > 0
    /\ fwd > 0

(* ----------------------------- C6 -------------------------------------- *)
\* an iteration of main_loop's while loop has just ended
IterationOver == pc = "top" /\ hist.steps # <<>>

FullIteration == <<WaitStep, <<1, 2>>, <<2, 1>>>>

\* C6 as stated: every iteration waits, then runs forward_pkts from port one
\* to port two, then from port two to port one.
C6_EveryIterationAsStated == IterationOver => hist.steps = FullIteration

\* C6 amended: every iteration waits once; when the wait does not time out
\* the iteration then runs forward_pkts from port one to port two and then
\* from port two to port one, in that order; when the wait times out the
\* iteration ends there, without running forward_pkts.
C6_IterationOrder ==
    /\ IterationOver =>
          hist.steps = IF hist.ret = 0 THEN <<WaitStep>> ELSE FullIteration
    /\ pc = "wait" => hist.steps = <<>>
    /\ pc = "fwd_a" => hist.steps = <<WaitStep, <<fsrc, fdst>>>> /\ fsrc = 1
    /\ pc = "fwd_b" => hist.steps = FullIteration /\ fsrc = 2 /\ fdst = 1

\* an iteration that forwarded in both directions has ended
C6_Witness ==
    /\ IterationOver /\ hist.steps = FullIteration
    /\ rx[1][0].head # 0 /\ rx[2][0].head # 0

(* ----------------------------- C7 -------------------------------------- *)
\* C7: stop is read at the top of the loop only.  The loop is left from its
\* top and nowhere else; a run of forward_pkts is left only when its while
\* loop is over, whatever stop is, the second run follows the first, and a
\* pass that moved packets ends with head and cur committed on both rings.
C7_StopOnlyAtTop ==
    [][/\ pc' = "done" => (pc = "top" /\ stop # 0)
       /\ (pc \in {"fwd_a", "fwd_b"} /\ pc' # pc) => AtReturn
       /\ (pc = "fwd_a" /\ pc' # pc) => pc' = "fwd_b"
       /\ (pc = "fwd_b" /\ pc' # pc) => pc' = "top"
       /\ (pc = "wait" /\ pc' # pc) => pc' \in {"top", "fwd_a"}
       /\ (pc \in {"fwd_a", "fwd_b"} /\ tot' # tot) =>
             /\ rx'[fsrc][si].head = rx'[fsrc][si].cur
             /\ tx'[fdst][di].head = tx'[fdst][di].cur
             /\ rx'[fsrc][si].head # rx[fsrc][si].head
    ]_vars

\* the signal has come and the second run of the iteration has still moved
\* packets and reached its end
C7_Witness ==
    /\ stop # 0 /\ pc = "fwd_b" /\ AtReturn
    /\ rx[1][0].head # 0 /\ rx[2][0].head # 0

(* ----------------------------- C8 -------------------------------------- *)
\* some receive ring of port p holds a packet
Busy(p) == \E r \in 0 .. last_rx_ring[p] : Occupancy(rx[p][r]) > 0

\* C8: when a wait is entered, for each port X with peer Y, POLLIN is asked
\* of X iff no receive ring of X holds a packet, POLLOUT is asked of Y iff
\* some receive ring of X holds one, and something is asked.
C8_PollInterest ==
    [][(pc = "top" /\ pc' = "wait") =>
          /\ \A X \in Ports :
                /\ ("POLLIN" \in events'[X]) <=> ~Busy(X)
                /\ ("POLLOUT" \in events'[Peer(X)]) <=> Busy(X)
          /\ \E X \in Ports : events'[X] # {}
    ]_vars

\* a wait entered while port one, with all its rings, held packets and port
\* two held none: nothing is asked of port one, and both events of port two
C8_Witness ==
    /\ pc = "wait"
    /\ last_rx_ring[1] = MaxRing
    /\ events[1] = {}
    /\ events[2] = {"POLLIN", "POLLOUT"}

(* ----------------------------- C9 -------------------------------------- *)
\* C9: with zerocopy, no filter, one receive ring with n packets and one
\* transmit ring with room for them, a call forwards all n: the i-th
\* transmit slot ends with the handle the i-th receive slot held and the
\* i-th receive slot with the handle the transmit slot held, both are
\* flagged NS_BUF_CHANGED, the transmit slot has the receive slot's length,
\* and fwd grows by n.
C9_ZerocopySwap ==
    (AtReturn /\ SingleRings /\ zerocopy /\ udp_port = 0
       /\ PreFree >= PreQueued)
        => /\ fwd - hist.pre.fwd = PreQueued
           /\ \A i \in 0 .. (PreQueued - 1) :
                LET rs0 == PreSlot(i)
                    ts0 == hist.pre.tx[fdst][0].slot[PreTxAt(i)]
                    rs1 == rx[fsrc][0].slot[PreSlotAt(i)]
                    ts1 == tx[fdst][0].slot[PreTxAt(i)]
                IN /\ ts1.buf_idx = rs0.buf_idx
                   /\ rs1.buf_idx = ts0.buf_idx
                   /\ rs0.buf_idx # ts0.buf_idx
                   /\ "NS_BUF_CHANGED" \in ts1.flags
                   /\ "NS_BUF_CHANGED" \in rs1.flags
                   /\ ts1.len = rs0.len

\* such a call has swapped the handles of every slot a ring can offer
C9_Witness ==
    /\ AtReturn /\ SingleRings /\ zerocopy /\ udp_port = 0
    /\ PreQueued = NumSlots - 1 /\ PreFree = PreQueued
    /\ fwd - hist.pre.fwd = PreQueued

(* ----------------------------- C10 ------------------------------------- *)
\* accepted packets queued before the j-th one when the call began
Rank(j) == PreAcceptedIn(j)

\* C10: without zerocopy every slot keeps the buffer handle nm_open gave it
\* and none is flagged NS_BUF_CHANGED; a forwarded packet's bytes are in the
\* buffer the transmit slot held all along, which is not the buffer of the
\* receive slot.
C10_CopyKeepsHandles ==
    ~zerocopy =>
      /\ \A p \in Ports, r \in RingIds, s \in SlotIds :
            /\ rx[p][r].slot[s].buf_idx = InitBufIdx(mem, p, 0, r, s)
            /\ tx[p][r].slot[s].buf_idx = InitBufIdx(mem, p, 1, r, s)
            /\ "NS_BUF_CHANGED" \notin rx[p][r].slot[s].flags
            /\ "NS_BUF_CHANGED" \notin tx[p][r].slot[s].flags
      /\ (AtReturn /\ SingleRings) =>
            \A j \in 0 .. (PreQueued - 1) :
               (PreAccepts(j) /\ Rank(j) < PreFree) =>
                  LET rs0 == PreSlot(j)
                      ts1 == tx[fdst][0].slot[PreTxAt(Rank(j))]
                      rxk == <<mem[fsrc], rs0.buf_idx>>
                      txk == <<mem[fdst], ts1.buf_idx>>
                  IN /\ txk # rxk
                     /\ ts1.len = rs0.len
                     /\ \A i \in 1 .. rs0.len :
                           bufs[txk][i] = hist.pre.bufs[rxk][i]
                     /\ bufs[rxk] = hist.pre.bufs[rxk]

\* a call in copy mode has forwarded a packet into the buffer the transmit
\* slot held
C10_Witness ==
    /\ ~zerocopy /\ AtReturn /\ SingleRings
    /\ fwd - hist.pre.fwd >= 1
    /\ \E j \in 0 .. (PreQueued - 1) :
          /\ PreAccepts(j)
          /\ Rank(j) < PreFree
          /\ tx[fdst][0].slot[PreTxAt(Rank(j))].len = PreSlot(j).len
          /\ PreSlot(j).len > 0

(* ----------------------------- C11 ------------------------------------- *)
\* packets the call has examined so far (one receive ring)
Examined == tot - hist.pre.tot
\* the buffer behind the j-th queued slot when the call began
PreBuf(j) == hist.pre.bufs[<<mem[fsrc], PreSlot(j).buf_idx>>]

\* C11: with filter port 0 pkt_select accepts every frame, whatever its
\* bytes, and reads no byte of it: every packet a call examines is forwarded.
C11_NoFilterAcceptsAll ==
    (AtReturn /\ udp_port = 0)
        => /\ \A j \in 0 .. (Examined - 1) :
                 /\ pkt_select(PreBuf(j), udp_port) = 1
                 /\ pkt_select_reads(PreBuf(j), udp_port) = {}
           /\ fwd - hist.pre.fwd = Examined

\* without a filter a call has forwarded a frame that is not IP and a frame
\* with a link-layer header only
C11_Witness ==
    /\ AtReturn /\ udp_port = 0
    /\ fwd - hist.pre.fwd = 2
    /\ \E j, k \in 0 .. (Examined - 1) :
          /\ Load16(PreBuf(j), OffEtherType) # htons(ETHERTYPE_IP)
          /\ PreSlot(k).len = OffIpVhl

(* ----------------------------- C12 ------------------------------------- *)
\* What a frame of len bytes says on the wire, fields in network byte order:
\* the link-layer type, the length of the IP header (the low four bits of
\* its first byte, in 32 bit words), the IP protocol, and the destination
\* port of the UDP header that follows the IP header.
WireEtherType(buf) == At(buf, OffEtherType) * 256 + At(buf, OffEtherType + 1)
WireIpHl(buf) == (At(buf, OffIpVhl) % 16) * 4
WireProto(buf) == At(buf, OffIpProto)
WireUdpAt(buf) == OffIpVhl + WireIpHl(buf)
WireDport(buf) == At(buf, WireUdpAt(buf) + 2) * 256 + At(buf, WireUdpAt(buf) + 3)

\* the frame is UDP over IP to this port
WireAccepts(buf, len, port) ==
    /\ len >= OffIpVhl
    /\ WireEtherType(buf) = ETHERTYPE_IP
    /\ len > OffIpProto
    /\ WireProto(buf) = IPPROTO_UDP
    /\ len >= WireUdpAt(buf) + 4
    /\ WireDport(buf) = port

\* C12 as stated: with a filter port other than 0, pkt_select accepts a
\* frame if and only if it is IP, its protocol is UDP and its UDP destination
\* port is the filter port, whatever the length of its IP header.
C12_AcceptsIffUdpToPort ==
    (AtReturn /\ udp_port # 0)
        => \A j \in 0 .. (Examined - 1) :
              (pkt_select(PreBuf(j), udp_port) = 1)
                <=> WireAccepts(PreBuf(j), PreSlot(j).len, udp_port)

(* ----------------------------- C13 ------------------------------------- *)
\* poll has just failed
PollFailed == pc = "wait" /\ hist'.nerr = hist.nerr + 1

\* C13: when poll fails the error is printed, stop is left as it is and the
\* loop is not left: both runs of forward_pkts follow, and then the loop
\* waits again unless stop has been set.
C13_PollErrorNotFatal ==
    /\ [][PollFailed =>
             /\ hist'.stderr = hist.stderr + 1
             /\ stop' = stop
             /\ pc' = "fwd_a"
             /\ ~hist'.closed]_vars
    /\ ((pc = "fwd_a" /\ hist.ret = -1) ~> (pc = "wait" \/ stop # 0))

\* the loop is waiting again after a failure of poll, stop still clear
C13_Witness ==
    /\ pc = "wait" /\ stop = 0
    /\ hist.nerr > 0 /\ hist.stderr > 0

(* ----------------------------- C14 ------------------------------------- *)
\* bytes a frame needs to hold the link-layer header, an IP header without
\* options and the UDP header up to its destination port's last byte: what
\* pkt_select reads lies below this offset
HeadersLen == OffUdpDport + 2

\* examined packets too short to hold the headers
ShortExamined ==
    { j \in 0 .. (Examined - 1) : PreSlot(j).len < HeadersLen }

\* C14 as stated: pkt_select reads no byte at an offset at or beyond the
\* slot's length, and with a filter a frame too short to hold the headers is
\* rejected: it is counted in tot and not in fwd.
C14_ReadsWithinLength ==
    AtReturn
        => /\ \A j \in 0 .. (Examined - 1) :
                 \A off \in pkt_select_reads(PreBuf(j), udp_port) :
                     off < PreSlot(j).len
           /\ udp_port # 0 =>
                 /\ \A j \in ShortExamined :
                        pkt_select(PreBuf(j), udp_port) = 0
                 /\ fwd - hist.pre.fwd <= Examined - Cardinality(ShortExamined)

(* ----------------------------- C15 ------------------------------------- *)
SrcEmpty == \A r \in 0 .. last_rx_ring[fsrc] : nm_ring_space(rx[fsrc][r]) = 0
DstFull == \A r \in 0 .. last_tx_ring[fdst] : nm_ring_space(tx[fdst][r]) = 0

\* C15: when forward_pkts returns, every receive ring of the source is empty
\* or every transmit ring of the destination is full.
C15_DrainedOrFull == AtReturn => (SrcEmpty \/ DstFull)

\* a call over several rings on each side has filled the last transmit ring
\* and returned with packets left in the last receive ring
C15_Witness ==
    /\ AtReturn
    /\ last_rx_ring[fsrc] = MaxRing /\ last_tx_ring[fdst] = MaxRing
    /\ MaxRing > 0
    /\ nm_ring_space(rx[fsrc][MaxRing]) > 0
    /\ DstFull
    /\ nm_ring_space(hist.pre.tx[fdst][MaxRing]) > 0
    /\ nm_ring_space(hist.pre.rx[fsrc][0]) > 0

(* ----------------------------- C16 ------------------------------------- *)
\* slot i is one of the slots between the ring's head and its tail
InRange(ring, i) == ((i - ring.head + NumSlots) % NumSlots) < Occupancy(ring)
\* slots the head moved by from ring0 to ring1
Advance(ring0, ring1) == (ring1.head - ring0.head + NumSlots) % NumSlots
\* the slots the pass that is due points rs and ts at
PassVisits ==
    ForVisits(CallCtx, si, di,
              [w |-> World,
               nrx |-> nm_ring_space(rx[fsrc][si]),
               ntx |-> nm_ring_space(tx[fdst][di]),
               rxhead |-> rx[fsrc][si].head, txhead |-> tx[fdst][di].head])

\* C16: a pass of forward_pkts moves no tail; it moves the head of a ring by
\* no more than the slots between head and tail, so no head passes its tail;
\* it reads and writes slots only between head and tail of the receive ring
\* and the transmit ring it works on, and buffers only of those transmit
\* slots; and every ring ends with head equal to cur.
C16_WithinAvailable ==
    [][(pc \in {"fwd_a", "fwd_b", "fwd_u"} /\ pc' = pc) =>
          /\ \A p \in Ports, r \in RingIds :
                /\ rx'[p][r].tail = rx[p][r].tail
                /\ tx'[p][r].tail = tx[p][r].tail
                /\ Advance(rx[p][r], rx'[p][r]) <= Occupancy(rx[p][r])
                /\ Advance(tx[p][r], tx'[p][r]) <= Occupancy(tx[p][r])
                /\ rx'[p][r].head = rx'[p][r].cur
                /\ tx'[p][r].head = tx'[p][r].cur
                /\ rx'[p][r] # rx[p][r] => (p = fsrc /\ r = si)
                /\ tx'[p][r] # tx[p][r] => (p = fdst /\ r = di)
                /\ \A i \in SlotIds :
                      /\ rx'[p][r].slot[i] # rx[p][r].slot[i]
                            => InRange(rx[p][r], i)
                      /\ tx'[p][r].slot[i] # tx[p][r].slot[i]
                            => InRange(tx[p][r], i)
          /\ tot' - tot = Advance(rx[fsrc][si], rx'[fsrc][si])
          /\ fwd' - fwd = Advance(tx[fdst][di], tx'[fdst][di])
          /\ \A k \in DOMAIN bufs :
                bufs'[k] # bufs[k] =>
                   \E i \in SlotIds :
                      /\ InRange(tx[fdst][di], i)
                      /\ k = <<mem[fdst], tx[fdst][di].slot[i].buf_idx>>
          /\ WhileCond(CallCtx, si, di) =>
                /\ \A i \in PassVisits.rx : InRange(rx[fsrc][si], i)
                /\ \A i \in PassVisits.tx : InRange(tx[fdst][di], i)
    ]_vars

\* a call found both rings with their heads on the last slot and all the
\* slots a ring can offer available, and moved both heads around the end of
\* the ring up to their tails
C16_Witness ==
    /\ AtReturn /\ SingleRings
    /\ hist.pre.rx[fsrc][0].head = NumSlots - 1
    /\ PreQueued = NumSlots - 1 /\ PreFree = NumSlots - 1
    /\ rx[fsrc][0].head = rx[fsrc][0].tail
    /\ tx[fdst][0].head = tx[fdst][0].tail
    /\ rx[fsrc][0].head = rx[fsrc][0].cur

(* ----------------------------- C17 ------------------------------------- *)
\* the slots of both ports: direction (0 receive, 1 transmit), port, ring,
\* slot
AllSlots == {0, 1} \X Ports \X RingIds \X SlotIds
\* the buffer handle a slot holds
Handle(t) ==
    IF t[1] = 0 THEN rx[t[2]][t[3]].slot[t[4]].buf_idx
    ELSE tx[t[2]][t[3]].slot[t[4]].buf_idx
\* the handle nm_open gave it
InitHandle(t) == InitBufIdx(mem, t[2], t[1], t[3], t[4])

\* C17: with zerocopy, the slots of both ports hold the handles they held
\* after nm_open, each handle in exactly one slot, whatever calls of
\* forward_pkts in either direction, arrivals and completions came before.
C17_HandlesPermuted ==
    zerocopy =>
        /\ Cardinality({ Handle(t) : t \in AllSlots }) = Cardinality(AllSlots)
        /\ { Handle(t) : t \in AllSlots } = { InitHandle(t) : t \in AllSlots }

\* calls in both directions have swapped handles: a receive slot of each
\* port holds a handle that began in a transmit slot of the other port
C17_Witness ==
    /\ zerocopy
    /\ \E i, j \in SlotIds :
          /\ Handle(<<0, 1, 0, 0>>) = InitHandle(<<1, 2, 0, i>>)
          /\ Handle(<<0, 2, 0, 0>>) = InitHandle(<<1, 1, 0, j>>)
          /\ Handle(<<1, 2, 0, i>>) = InitHandle(<<0, 1, 0, 0>>)

(* ----------------------------- C18 ------------------------------------- *)
\* Where a packet came from: the kernel writes the port, the receive ring
\* and the packet's number in that ring in the first three bytes of a frame.
Origin(buf) == <<At(buf, 0), At(buf, 1)>>
SeqNo(buf) == At(buf, 2)

\* the n-th slot (from 0) of a ring counted from its head
FromHead(ring, n) == (ring.head + n) % NumSlots

\* the bytes behind the n-th slot from the head of transmit ring r of port p
TxBuf(p, r, n) ==
    bufs[<<mem[p], tx[p][r].slot[FromHead(tx[p][r], n)].buf_idx>>]
TxLen(p, r, n) == tx[p][r].slot[FromHead(tx[p][r], n)].len

\* A transmit ring is written at its head, which then moves on: from the
\* head around the ring the written slots come oldest first.  Packets of the
\* same receive ring stand there in the order of their numbers.
TxOrdered ==
    \A p \in Ports, r \in RingIds :
       \A a, b \in 0 .. (NumSlots - 1) :
          (/\ a < b
           /\ TxLen(p, r, a) > 0 /\ TxLen(p, r, b) > 0
           /\ Origin(TxBuf(p, r, a)) = Origin(TxBuf(p, r, b)))
             => SeqNo(TxBuf(p, r, a)) < SeqNo(TxBuf(p, r, b))

\* the receive slots the pass that is being taken consumes, and which of
\* them the classifier accepts
Consumed == tot' - tot
RxBufAt(j) ==
    bufs[<<mem[fsrc], rx[fsrc][si].slot[FromHead(rx[fsrc][si], j)].buf_idx>>]
Accepts(j) == pkt_select(RxBufAt(j), udp_port) = 1
AcceptedBefore(j) == Cardinality({ i \in 0 .. (j - 1) : Accepts(i) })

\* every accepted packet the pass consumes is, after the pass, in the
\* transmit slot as far from the old transmit head as there were accepted
\* packets before it
PassKeepsOrder ==
    /\ fwd' - fwd = AcceptedBefore(Consumed)
    /\ \A j \in 0 .. (Consumed - 1) :
          Accepts(j) =>
             LET ts == tx'[fdst][di].slot[FromHead(tx[fdst][di],
                                                  AcceptedBefore(j))]
                 rs == rx[fsrc][si].slot[FromHead(rx[fsrc][si], j)]
                 out == bufs'[<<mem[fdst], ts.buf_idx>>]
             IN /\ ts.len = rs.len
                /\ \A i \in 1 .. rs.len : out[i] = RxBufAt(j)[i]

\* C18: a pass of forward_pkts writes the accepted packets of the receive
\* ring to consecutive transmit slots in their receive-ring order, and after
\* any calls, arrivals and completions the packets of one receive ring stand
\* in every transmit ring in their receive-ring order.
C18_OrderKept ==
    [][/\ (pc \in {"fwd_a", "fwd_b", "fwd_u"} /\ pc' = pc) => PassKeepsOrder
       /\ TxOrdered'
    ]_vars

\* the three packets receive ring 0 of port one was given stand in transmit
\* ring 0 of port two in their order, the third written after a completion
\* made room for it
C18_Witness ==
    /\ \A n \in 0 .. (NumSlots - 1) :
          /\ TxLen(2, 0, n) > 0
          /\ Origin(TxBuf(2, 0, n)) = <<1, 0>>
          /\ SeqNo(TxBuf(2, 0, n)) = n + 1
    /\ fwd = NumSlots

(* ----------------------------- C19 ------------------------------------- *)
\* packets queued in receive rings 0 .. r of the source in world w
RECURSIVE QueuedUpTo(_, _)
QueuedUpTo(w, r) ==
    IF r < 0 THEN 0
    ELSE Occupancy(w.rx[fsrc][r]) + QueuedUpTo(w, r - 1)

\* What is left for the while loop at position (s, d) in world w: receive
\* rings and transmit rings not yet left behind, and packets queued.  The
\* loop is over before this reaches 0.
Left(w, s, d) ==
    (last_rx_ring[fsrc] + 1 - s) + (last_tx_ring[fdst] + 1 - d)
      + QueuedUpTo(w, last_rx_ring[fsrc])

\* C19: whenever a pass of forward_pkts's while loop is due, that pass moves
\* to the next receive ring, or moves to the next transmit ring, or consumes
\* at least one receive slot and commits; it moves no tail, and it leaves
\* less for the loop to do than there was.  So the loop ends after no more
\* passes than rings and queued packets together.
C19_EveryPassAdvances ==
    (pc \in {"fwd_a", "fwd_b", "fwd_u"} /\ WhileCond(CallCtx, si, di)) =>
        LET r   == Pass(World, CallCtx, si, di)
            rx0 == rx[fsrc][si]
            rx1 == r.w.rx[fsrc][si]
            tx1 == r.w.tx[fdst][di]
        IN /\ \/ r.si = si + 1 /\ r.di = di /\ r.w = World
              \/ r.si = si /\ r.di = di + 1 /\ r.w = World
              \/ /\ r.si = si /\ r.di = di
                 /\ Advance(rx0, rx1) >= 1
                 /\ r.w.tot - tot = Advance(rx0, rx1)
                 /\ rx1.head = rx1.cur /\ tx1.head = tx1.cur
           /\ \A p \in Ports, q \in RingIds :
                 /\ r.w.rx[p][q].tail = rx[p][q].tail
                 /\ r.w.tx[p][q].tail = tx[p][q].tail
           /\ Left(r.w, r.si, r.di) < Left(World, si, di)
           /\ Left(r.w, r.si, r.di) >= 0

\* a call has come to its end after passes of the three kinds: it filled
\* the transmit ring from the first receive ring, moved to the second
\* receive ring, found a packet there and no room, and moved past the last
\* transmit ring
C19_Witness ==
    /\ AtReturn
    /\ si = 1 /\ last_rx_ring[fsrc] >= 1
    /\ di = last_tx_ring[fdst] + 1
    /\ nm_ring_space(rx[fsrc][1]) > 0
    /\ rx[fsrc][0].head # 0
    /\ fwd > 0

(* ----------------------------- C20 ------------------------------------- *)
\* C20: once stop is set it stays set; no new wait is begun, so that at most
\* the wait in progress is still to return; the loop is left for good, and
\* leaving it closes the ports and reports tot and fwd as they are; and,
\* every wait returning, the loop is left in the end.
C20_StopEndsLoop ==
    /\ [][/\ stop # 0 => stop' # 0
          /\ (stop # 0 /\ pc' = "wait") => pc = "wait"
          /\ pc = "done" => pc' = "done"
          /\ pc' = "done" =>
                /\ stop' # 0
                /\ hist'.closed
                /\ hist'.report = <<tot', fwd'>>
       ]_vars
    /\ ((stop # 0) ~> (pc = "done"))

\* the loop has been left after forwarding and dropping packets, the ports
\* are closed and the counters reported
C20_Witness ==
    /\ pc = "done" /\ stop # 0
    /\ hist.closed /\ hist.report = <<tot, fwd>>
    /\ fwd >= 1 /\ tot > fwd

====
